---- MODULE Spec2Model ----
(***************************************************************************)
(* graphql-ts-generator (src/src/main.go): one run of main().              *)
(*                                                                         *)
(* A run walks the input directory, ingests every .graphql schema into the *)
(* four global registries (types, enums, queries, mutations) and then      *)
(* generates the TypeScript file.                                          *)
(*                                                                         *)
(* Go strings that the program takes apart (type references such as        *)
(* "[User!]!") are sequences of tokens: "[", "]", "!" and a name.  A name   *)
(* holds none of the three punctuation characters, so TrimSuffix,          *)
(* HasPrefix, HasSuffix and slicing act on tokens exactly as they act on   *)
(* the characters.  Text the program only builds (output lines, error      *)
(* messages) is a sequence of the pieces that fmt.Sprintf joins.           *)
(*                                                                         *)
(* A Go map is a function on the set of its keys; "range m" visits the     *)
(* keys in an order the language leaves open, so every loop over a map     *)
(* picks any key it has not visited yet.                                   *)
(***************************************************************************)
EXTENDS Naturals, Sequences, FiniteSets

(***************************************************************************)
(* Bounds of the model.                                                    *)
(***************************************************************************)
\* Files found by the walk of the input directory.
MaxFiles == 2

\* List levels around the base name of a type reference.
MaxDepth == 1

\* List levels of the references given to the translator alone (SpecRef).
MaxRefDepth == 3

\* The deepest call stack of bufferRequestInterface the runtime allows.
MaxStack == 4

\* The most definitions a schema file of SpecKinds declares.
MaxKindDefs == 3

(***************************************************************************)
(* Go's strings package, on token sequences.                               *)
(***************************************************************************)
HasPrefix(s, tok) == Len(s) > 0 /\ s[1] = tok

HasSuffix(s, tok) == Len(s) > 0 /\ s[Len(s)] = tok

TrimSuffix(s, tok) == IF HasSuffix(s, tok) THEN SubSeq(s, 1, Len(s) - 1) ELSE s

\* s[1 : len(s)-1]
Interior(s) == SubSeq(s, 2, Len(s) - 1)

\* The map m with m[k] = v.
MapPut(m, k, v) == [x \in DOMAIN m \cup {k} |-> IF x = k THEN v ELSE m[x]]

EmptyMap == [x \in {} |-> x]

\* m[s] for a map keyed by names and a string s: found iff s is that one name.
Found(m, s) == Len(s) = 1 /\ s[1] \in DOMAIN m

(***************************************************************************)
(* convertGraphqlTypeToTs                                                  *)
(***************************************************************************)
ScalarToTs(cleanType) ==
    CASE cleanType = <<"String">> -> <<"string">>
      [] cleanType = <<"Int">> -> <<"number">>
      [] cleanType = <<"Float">> -> <<"number">>
      [] cleanType = <<"Boolean">> -> <<"boolean">>
      [] cleanType = <<"ID">> -> <<"string">>
      [] cleanType = <<"DateTime">> -> <<"string">>
      [] cleanType = <<"JSONObject">> -> <<"Record<string, unknown>">>
      [] OTHER -> cleanType

\* A translation that unwraps one list level only.
convertOneLevel(graphqlType) ==
    LET cleanType == TrimSuffix(graphqlType, "!")
    IN  IF HasPrefix(cleanType, "[") /\ HasSuffix(cleanType, "]")
        THEN <<"Array<">> \o ScalarToTs(TrimSuffix(Interior(cleanType), "!")) \o <<">">>
        ELSE ScalarToTs(cleanType)

RECURSIVE convertGraphqlTypeToTs(_)
convertGraphqlTypeToTs(graphqlType) ==
    LET cleanType == TrimSuffix(graphqlType, "!")
    IN  IF HasPrefix(cleanType, "[") /\ HasSuffix(cleanType, "]")
        THEN <<"Array<">> \o convertGraphqlTypeToTs(Interior(cleanType)) \o <<">">>
        ELSE ScalarToTs(cleanType)

(***************************************************************************)
(* extractCleanType: strips one "!", one list level and one inner "!".     *)
(***************************************************************************)
extractCleanType(typeStr) ==
    LET cleanType == TrimSuffix(typeStr, "!")
    IN  IF HasPrefix(cleanType, "[") /\ HasSuffix(cleanType, "]")
        THEN TrimSuffix(Interior(cleanType), "!")
        ELSE cleanType

(***************************************************************************)
(* compareDefinitions / compareEnums                                       *)
(***************************************************************************)
\* A comparison that takes the fields as a set, not position by position.
compareDefinitionsUnordered(a, b) ==
    /\ Len(a.Fields) = Len(b.Fields)
    /\ {a.Fields[i] : i \in 1..Len(a.Fields)} = {b.Fields[i] : i \in 1..Len(b.Fields)}

compareDefinitions(a, b) ==
    /\ Len(a.Fields) = Len(b.Fields)
    /\ \A i \in 1..Len(a.Fields) :
          /\ a.Fields[i].Name = b.Fields[i].Name
          /\ a.Fields[i].Type = b.Fields[i].Type

\* A comparison of the two pointers, which two parses never share.
compareEnumsByPointer(a, b) == FALSE

compareEnums(a, b) ==
    /\ Len(a.EnumValues) = Len(b.EnumValues)
    /\ \A i \in 1..Len(a.EnumValues) : a.EnumValues[i] = b.EnumValues[i]

(***************************************************************************)
(* The state of one run.                                                   *)
(***************************************************************************)
VARIABLES
    skipChecks,         \* the -skipChecks flag
    inputDir,           \* "ok" or "missing": what os.Stat finds at -input
    files,              \* the entries the walk of the input directory visits
    fileIdx,            \* the entry the walk visits next
    schema,             \* schema.Types of the file being ingested, not yet ranged over
    types,              \* map[string]*TypeInfo
    enums,              \* map[string]*ast.Definition
    queries,            \* map[string]*ast.FieldDefinition
    mutations,          \* map[string]*ast.FieldDefinition
    pc,                 \* where main() is
    diag,               \* the line log.Fatalf printed, <<>> if none
    fileOps,            \* what was done to the file at -output, in order
    fileContent,        \* the text written to it
    buffer,             \* requestInterfacesBuffer
    processedTypes,     \* generateTypescriptFile's processedTypes
    sweepProcessed,     \* the make(map[string]bool) of the current call at line 549
    deferredInterfaces, \* generateTypescriptFile's deferredInterfaces
    pending,            \* keys the current range loop has not visited yet
    stack,              \* the frames of bufferRequestInterface (and of the loop calling it)
    typeStr,            \* SpecRef: the reference given to the translator
    tsType              \* SpecRef: what the translator returned

vars == <<skipChecks, inputDir, files, fileIdx, schema, types, enums, queries,
          mutations, pc, diag, fileOps, fileContent, buffer, processedTypes,
          sweepProcessed, deferredInterfaces, pending, stack, typeStr, tsType>>

input == <<skipChecks, inputDir, files>>

registries == <<types, enums, queries, mutations>>

generation == <<fileOps, fileContent, buffer, processedTypes, sweepProcessed,
                deferredInterfaces, pending, stack>>

translator == <<typeStr, tsType>>

NoErr == <<>>

(***************************************************************************)
(* addTypeOrInterface, addEnum: the error returned and the map afterwards. *)
(***************************************************************************)
\* An add that, with the checks skipped, stores the later definition.
addTypeOrInterfaceLastWins(ts, skip, def) ==
    IF def.Name \in DOMAIN ts /\ ~skip /\ ~compareDefinitions(ts[def.Name].Definition, def)
    THEN [err |-> <<"error: type or interface ", def.Name,
                    " has conflicting definitions">>,
          map |-> ts]
    ELSE [err |-> NoErr,
          map |-> MapPut(ts, def.Name, [Name |-> def.Name, Definition |-> def])]

addTypeOrInterface(ts, skip, def) ==
    IF def.Name \in DOMAIN ts
    THEN IF ~skip /\ ~compareDefinitions(ts[def.Name].Definition, def)
         THEN [err |-> <<"error: type or interface ", def.Name,
                         " has conflicting definitions">>,
               map |-> ts]
         ELSE [err |-> NoErr, map |-> ts]
    ELSE [err |-> NoErr,
          map |-> MapPut(ts, def.Name, [Name |-> def.Name, Definition |-> def])]

addEnum(es, skip, enum) ==
    IF enum.Name \in DOMAIN es
    THEN IF ~skip /\ ~compareEnums(es[enum.Name], enum)
         THEN [err |-> <<"error: enum ", enum.Name, " has conflicting definitions">>,
               map |-> es]
         ELSE [err |-> NoErr, map |-> es]
    ELSE [err |-> NoErr, map |-> MapPut(es, enum.Name, enum)]

\* A root mapping that keeps the field it already has under a name.
addRootFieldsFirstWins(m, fields) ==
    LET new == {k \in 1..Len(fields) : fields[k].Name \notin DOMAIN m}
    IN  [x \in DOMAIN m \cup {fields[k].Name : k \in new} |->
            IF x \in DOMAIN m
            THEN m[x]
            ELSE fields[CHOOSE k \in new : fields[k].Name = x]]

\* for _, field := range typ.Fields { m[field.Name] = field }
RECURSIVE addRootFields(_, _)
addRootFields(m, fields) ==
    IF fields = <<>>
    THEN m
    ELSE addRootFields(MapPut(m, Head(fields).Name, Head(fields)), Tail(fields))

(***************************************************************************)
(* main, lines 345-347: the input directory must exist.                    *)
(***************************************************************************)
Start ==
    /\ pc = "start"
    /\ IF inputDir = "missing"
       THEN /\ pc' = "fatal"
            /\ diag' = <<"Input directory does not exist: ", "input">>
       ELSE /\ pc' = "walk"
            /\ diag' = diag
    /\ UNCHANGED <<input, fileIdx, schema, registries, generation, translator>>

(***************************************************************************)
(* The walk callback (lines 349-362) on the next entry, with the head of   *)
(* processSchemaFile (lines 381-395): read the file and parse it.  Any     *)
(* error ends the walk, and main ends in log.Fatalf (lines 364-366).       *)
(***************************************************************************)
\* A callback that passes over a file the parser rejects.
WalkErrorLenient(f) ==
    CASE f.status = "walkerr" -> <<"lstat ", f.path, ": permission denied">>
      [] f.status = "unreadable" -> <<"could not read file ", f.path, ": ", "read error">>
      [] OTHER -> NoErr

WalkError(f) ==
    CASE f.status = "walkerr" -> <<"lstat ", f.path, ": permission denied">>
      [] f.status = "unreadable" -> <<"could not read file ", f.path, ": ", "read error">>
      [] f.status = "unparsable" ->
            <<"error parsing schema in file ", f.path, ": ", "syntax error">>
      [] OTHER -> NoErr

WalkFn ==
    /\ pc = "walk"
    /\ fileIdx <= Len(files)
    /\ LET f == files[fileIdx]
           err == WalkError(f)
       IN  IF err # NoErr
           THEN /\ pc' = "fatal"
                /\ diag' = <<"Error processing schema files: ">> \o err
                /\ UNCHANGED <<fileIdx, schema>>
           ELSE IF f.status = "skipped" \/ f.types = {}
           THEN /\ fileIdx' = fileIdx + 1
                /\ UNCHANGED <<pc, diag, schema>>
           ELSE /\ pc' = "schema"
                /\ schema' = f.types
                /\ UNCHANGED <<fileIdx, diag>>
    /\ UNCHANGED <<input, registries, generation, translator>>

(***************************************************************************)
(* One iteration of "for _, typ := range schema.Types" (lines 397-427).    *)
(* schema.Types is a map, so typ is any definition not yet visited.  An    *)
(* error returns from processSchemaFile and from the walk to log.Fatalf;   *)
(* after the last definition the callback returns nil.                     *)
(***************************************************************************)
\* A kind test that lets input objects through.
isObjectOrInterfaceOrInput(typ) == typ.Kind \in {"OBJECT", "INTERFACE", "INPUT_OBJECT"}

\* Line 399: typ.Kind == ast.Object || typ.Kind == ast.Interface
isObjectOrInterface(typ) == typ.Kind \in {"OBJECT", "INTERFACE"}

ProcessType ==
    /\ pc = "schema"
    /\ \E typ \in schema :
          LET isObject == isObjectOrInterface(typ)
              isRoot == typ.Name \in {"Query", "Mutation"}
              addedType == IF isObject /\ ~isRoot
                           THEN addTypeOrInterface(types, skipChecks, typ)
                           ELSE [err |-> NoErr, map |-> types]
              addedEnum == IF typ.Kind = "ENUM" /\ addedType.err = NoErr
                           THEN addEnum(enums, skipChecks, typ)
                           ELSE [err |-> NoErr, map |-> enums]
              err == IF addedType.err # NoErr THEN addedType.err ELSE addedEnum.err
          IN  /\ queries' = IF isObject /\ typ.Name = "Query"
                            THEN addRootFields(queries, typ.Fields)
                            ELSE queries
              /\ mutations' = IF isObject /\ typ.Name = "Mutation"
                              THEN addRootFields(mutations, typ.Fields)
                              ELSE mutations
              /\ types' = addedType.map
              /\ enums' = addedEnum.map
              /\ schema' = schema \ {typ}
              /\ IF err # NoErr
                 THEN /\ pc' = "fatal"
                      /\ diag' = <<"Error processing schema files: ">> \o err
                      /\ fileIdx' = fileIdx
                 ELSE /\ pc' = IF schema' = {} THEN "walk" ELSE "schema"
                      /\ fileIdx' = IF schema' = {} THEN fileIdx + 1 ELSE fileIdx
                      /\ diag' = diag
    /\ UNCHANGED <<input, generation, translator>>

(***************************************************************************)
(* Text of the generated file: one element per WriteString call.           *)
(***************************************************************************)
writeFileHeader ==
    << <<"/*\n * -------------------------------------------------------\n * THIS FILE WAS AUTOMATICALLY GENERATED (DO NOT MODIFY)\n * -------------------------------------------------------\n */\n\n/* tslint:disable */\n/* eslint-disable */\n\n">>,
       <<"type Nullable<T> = T | null;\n\n">> >>

\* The body of the loop of generateEnums, for one enum.
generateEnum(enum) ==
    << <<"export enum ", enum.Name, " {\n">> >>
    \o [i \in 1..Len(enum.EnumValues) |->
           <<"  ", enum.EnumValues[i], " = '", enum.EnumValues[i], "',\n">>]
    \o << <<"}\n\n">> >>

\* A test for a "!" anywhere in the reference.
isOptionalAnywhere(fieldTypeStr) ==
    \A i \in 1..Len(fieldTypeStr) : fieldTypeStr[i] # "!"

\* isOptional := !strings.HasSuffix(field.Type.String(), "!")
isOptional(fieldTypeStr) == ~HasSuffix(fieldTypeStr, "!")

\* Lines 562-569: the line of one field of a type interface.
typeFieldLine(field) ==
    LET fieldType == convertGraphqlTypeToTs(field.Type)
    IN  IF isOptional(field.Type)
        THEN <<"  ", field.Name, "?: Nullable<">> \o fieldType \o <<">;\n">>
        ELSE <<"  ", field.Name, ": ">> \o fieldType \o <<";\n">>

generateTypeInterface(typeInfo) ==
    (IF typeInfo.Definition.Kind = "OBJECT"
     THEN << <<"export interface ", typeInfo.Name, " {\n">> >>
     ELSE IF typeInfo.Definition.Kind = "INTERFACE"
     THEN << <<"export interface ", typeInfo.Name, " {\n">> >>
     ELSE << >>)
    \o [i \in 1..Len(typeInfo.Definition.Fields) |->
           typeFieldLine(typeInfo.Definition.Fields[i])]
    \o << <<"}\n\n">> >>

\* Lines 490-497: the line of one root field.
rootFieldLine(field) ==
    LET optional == ~HasSuffix(field.Type, "!")
        fieldType == convertGraphqlTypeToTs(field.Type)
    IN  IF optional
        THEN <<"  ", field.Name, "?: Nullable<">> \o fieldType \o <<">;\n">>
        ELSE <<"  ", field.Name, ": ">> \o fieldType \o <<";\n">>

isObjectType(typeName) == Found(types, typeName)

isObjectOrArrayOfObjects(fieldType) == Found(types, extractCleanType(fieldType))

determineFieldType(fieldTypeStr) ==
    LET cleanType == extractCleanType(fieldTypeStr)
    IN  IF HasPrefix(cleanType, "[") /\ HasSuffix(cleanType, "]")
        THEN LET innerType == TrimSuffix(Interior(cleanType), "!")
             IN  IF isObjectType(innerType)
                 THEN <<"Array<">> \o innerType \o <<"Request>">>
                 ELSE <<"Array<boolean | number>">>
        ELSE IF isObjectType(cleanType)
        THEN cleanType \o <<"Request">>
        ELSE <<"boolean | number">>

\* A request field line written like the line of a type interface.
requestFieldLineNullable(field) ==
    LET fieldType == determineFieldType(field.Type)
    IN  IF ~HasSuffix(field.Type, "!")
        THEN <<"  ", field.Name, "?: Nullable<">> \o fieldType \o <<">;\n">>
        ELSE <<"  ", field.Name, ": ">> \o fieldType \o <<";\n">>

\* Lines 583-591: the line of one field of a request interface.
requestFieldLine(field) ==
    LET fieldType == determineFieldType(field.Type)
    IN  IF ~HasSuffix(field.Type, "!")
        THEN <<"  ", field.Name, "?: ">> \o fieldType \o <<";\n">>
        ELSE <<"  ", field.Name, ": ">> \o fieldType \o <<";\n">>

\* The body of the loop of generateRequestInterfaces, for one deferred type.
generateRequestInterface(deferredType) ==
    IF deferredType \in DOMAIN types
    THEN << <<"export interface ", deferredType, "Request", " {\n">> >>
         \o [i \in 1..Len(types[deferredType].Definition.Fields) |->
                requestFieldLine(types[deferredType].Definition.Fields[i])]
         \o << <<"}\n\n">> >>
    ELSE << >>

\* bufferRequestInterface without the test of the processed map.
bufferRequestInterfaceNoVisited(returnType, processed, deferred, stk) ==
    LET cleanType == extractCleanType(returnType)
    IN  IF Found(types, cleanType)
        THEN [processed |-> processed \cup {cleanType},
              deferred |-> deferred \cup {cleanType[1]},
              stack |-> <<[fn |-> "bufferRequestInterface",
                           name |-> cleanType[1], i |-> 1]>> \o stk]
        ELSE [processed |-> processed \cup {cleanType},
              deferred |-> deferred,
              stack |-> stk]

(***************************************************************************)
(* bufferRequestInterface up to its loop (lines 667-680): the two maps     *)
(* afterwards, and the stack with a frame for the loop over the fields of  *)
(* the type when the type is registered and was not processed.             *)
(***************************************************************************)
bufferRequestInterface(returnType, processed, deferred, stk) ==
    LET cleanType == extractCleanType(returnType)
    IN  IF cleanType \in processed
        THEN [processed |-> processed, deferred |-> deferred, stack |-> stk]
        ELSE IF Found(types, cleanType)
        THEN [processed |-> processed \cup {cleanType},
              deferred |-> deferred \cup {cleanType[1]},
              stack |-> <<[fn |-> "bufferRequestInterface",
                           name |-> cleanType[1], i |-> 1]>> \o stk]
        ELSE [processed |-> processed \cup {cleanType},
              deferred |-> deferred,
              stack |-> stk]

(***************************************************************************)
(* generateTypescriptFile, lines 620-636: create (or truncate) the output  *)
(* file, which can fail, then the header.                                  *)
(***************************************************************************)
CreateFile ==
    /\ pc = "walk"
    /\ fileIdx > Len(files)
    /\ \E created \in BOOLEAN :
          IF created
          THEN /\ fileOps' = Append(fileOps, "create")
               /\ buffer' = writeFileHeader
               /\ pending' = DOMAIN enums
               /\ pc' = "generateEnums"
               /\ diag' = diag
          ELSE /\ pc' = "fatal"
               /\ diag' = <<"Error generating TypeScript file: ",
                            "could not create file: ", "permission denied">>
               /\ UNCHANGED <<fileOps, buffer, pending>>
    /\ UNCHANGED <<input, fileIdx, schema, registries, fileContent, processedTypes,
                   sweepProcessed, deferredInterfaces, stack, translator>>

(***************************************************************************)
(* generateEnums: one iteration of the range over enums, or its end.       *)
(***************************************************************************)
GenerateEnums ==
    /\ pc = "generateEnums"
    /\ IF pending = {}
       THEN /\ pc' = "generateTypes"
            /\ pending' = DOMAIN types
            /\ buffer' = buffer
       ELSE \E name \in pending :
               /\ buffer' = buffer \o generateEnum(enums[name])
               /\ pending' = pending \ {name}
               /\ pc' = pc
    /\ UNCHANGED <<input, fileIdx, schema, registries, diag, fileOps, fileContent,
                   processedTypes, sweepProcessed, deferredInterfaces, stack,
                   translator>>

(***************************************************************************)
(* Lines 639-648: one iteration of the range over types, up to its loop    *)
(* over the fields, which the frame pushed here runs; or the end of the    *)
(* range.                                                                  *)
(***************************************************************************)
GenerateTypes ==
    /\ pc = "generateTypes"
    /\ stack = <<>>
    /\ IF pending = {}
       THEN /\ pc' = "Query"
            /\ UNCHANGED <<buffer, pending, stack>>
       ELSE \E name \in pending :
               /\ buffer' = buffer \o generateTypeInterface(types[name])
               /\ pending' = pending \ {name}
               /\ stack' = <<[fn |-> "generateTypescriptFile", name |-> name, i |-> 1]>>
               /\ pc' = pc
    /\ UNCHANGED <<input, fileIdx, schema, registries, diag, fileOps, fileContent,
                   processedTypes, sweepProcessed, deferredInterfaces, translator>>

(***************************************************************************)
(* One iteration of the loop over the fields of a type, in the frame on    *)
(* top of the stack (lines 643-647 and 682-686 are the same loop), or its  *)
(* end, which returns to the caller.  The Go runtime ends a program whose   *)
(* call stack outgrows its limit: no step is taken beyond MaxStack frames. *)
(***************************************************************************)
BufferStep ==
    /\ stack # <<>>
    /\ Len(stack) <= MaxStack
    /\ LET top == Head(stack)
           fields == types[top.name].Definition.Fields
           rest == <<[top EXCEPT !.i = top.i + 1]>> \o Tail(stack)
           inSweep == pc = "bufferMissing"
           processed == IF inSweep THEN sweepProcessed ELSE processedTypes
       IN  IF top.i > Len(fields)
           THEN /\ stack' = Tail(stack)
                /\ UNCHANGED <<processedTypes, sweepProcessed, deferredInterfaces>>
           ELSE IF isObjectOrArrayOfObjects(fields[top.i].Type)
           THEN LET r == bufferRequestInterface(fields[top.i].Type, processed,
                                                deferredInterfaces, rest)
                IN  /\ stack' = r.stack
                    /\ deferredInterfaces' = r.deferred
                    /\ processedTypes' = IF inSweep THEN processedTypes ELSE r.processed
                    /\ sweepProcessed' = IF inSweep THEN r.processed ELSE sweepProcessed
           ELSE /\ stack' = rest
                /\ UNCHANGED <<processedTypes, sweepProcessed, deferredInterfaces>>
    /\ UNCHANGED <<input, fileIdx, schema, registries, pc, diag, fileOps, fileContent,
                   buffer, pending, translator>>

(***************************************************************************)
(* generateRootInterfaces up to its loop (lines 487-488), for Query and    *)
(* then for Mutation (lines 651-652): nothing is written for a root with   *)
(* no fields.                                                              *)
(***************************************************************************)
GenerateRootInterfaces ==
    /\ pc \in {"Query", "Mutation"}
    /\ LET rootName == pc
           fields == IF pc = "Query" THEN queries ELSE mutations
       IN  IF Cardinality(DOMAIN fields) > 0
           THEN /\ buffer' = Append(buffer, <<"export interface ", rootName, " {\n">>)
                /\ pending' = DOMAIN fields
                /\ pc' = IF pc = "Query" THEN "QueryFields" ELSE "MutationFields"
           ELSE /\ buffer' = buffer
                /\ pending' = IF pc = "Query" THEN pending ELSE DOMAIN types
                /\ pc' = IF pc = "Query" THEN "Mutation" ELSE "bufferMissing"
    /\ UNCHANGED <<input, fileIdx, schema, registries, diag, fileOps, fileContent,
                   processedTypes, sweepProcessed, deferredInterfaces, stack,
                   translator>>

(***************************************************************************)
(* One iteration of the range over the root fields (lines 489-500): the    *)
(* field's line and the call of bufferRequestInterface; or the end of the  *)
(* range and the closing line (line 501).                                  *)
(***************************************************************************)
RootFields ==
    /\ pc \in {"QueryFields", "MutationFields"}
    /\ stack = <<>>
    /\ LET fields == IF pc = "QueryFields" THEN queries ELSE mutations
       IN  IF pending = {}
           THEN /\ buffer' = Append(buffer, <<"}\n\n">>)
                /\ pending' = IF pc = "QueryFields" THEN pending ELSE DOMAIN types
                /\ pc' = IF pc = "QueryFields" THEN "Mutation" ELSE "bufferMissing"
                /\ UNCHANGED <<processedTypes, deferredInterfaces, stack>>
           ELSE \E name \in pending :
                   LET r == bufferRequestInterface(fields[name].Type, processedTypes,
                                                   deferredInterfaces, <<>>)
                   IN  /\ buffer' = Append(buffer, rootFieldLine(fields[name]))
                       /\ pending' = pending \ {name}
                       /\ processedTypes' = r.processed
                       /\ deferredInterfaces' = r.deferred
                       /\ stack' = r.stack
                       /\ pc' = pc
    /\ UNCHANGED <<input, fileIdx, schema, registries, diag, fileOps, fileContent,
                   sweepProcessed, translator>>

\* A sweep condition without the negation.
isMissingInverted(typeName) ==
    isObjectOrArrayOfObjects(<<typeName>>) /\ typeName \in deferredInterfaces

\* Line 546: isObjectOrArrayOfObjects(typeName) && !deferredInterfaces[typeName]
isMissing(typeName) ==
    isObjectOrArrayOfObjects(<<typeName>>) /\ typeName \notin deferredInterfaces

(***************************************************************************)
(* bufferMissingRequestInterfaces: one iteration of the range over types,  *)
(* or its end.  The call at line 549 gets a new, empty processed map.      *)
(***************************************************************************)
BufferMissingRequestInterfaces ==
    /\ pc = "bufferMissing"
    /\ stack = <<>>
    /\ IF pending = {}
       THEN /\ pc' = "generateRequests"
            /\ pending' = deferredInterfaces
            /\ UNCHANGED <<sweepProcessed, deferredInterfaces, stack>>
       ELSE \E typeName \in pending :
               /\ pending' = pending \ {typeName}
               /\ pc' = pc
               /\ IF isMissing(typeName)
                  THEN LET r == bufferRequestInterface(
                                    <<typeName>>, {},
                                    deferredInterfaces \cup {typeName}, <<>>)
                       IN  /\ sweepProcessed' = r.processed
                           /\ deferredInterfaces' = r.deferred
                           /\ stack' = r.stack
                  ELSE UNCHANGED <<sweepProcessed, deferredInterfaces, stack>>
    /\ UNCHANGED <<input, fileIdx, schema, registries, diag, fileOps, fileContent,
                   buffer, processedTypes, translator>>

(***************************************************************************)
(* generateRequestInterfaces: one iteration of the range over              *)
(* deferredInterfaces, or its end.                                         *)
(***************************************************************************)
GenerateRequestInterfaces ==
    /\ pc = "generateRequests"
    /\ IF pending = {}
       THEN /\ pc' = "write"
            /\ UNCHANGED <<buffer, pending>>
       ELSE \E deferredType \in pending :
               /\ buffer' = buffer \o generateRequestInterface(deferredType)
               /\ pending' = pending \ {deferredType}
               /\ pc' = pc
    /\ UNCHANGED <<input, fileIdx, schema, registries, diag, fileOps, fileContent,
                   processedTypes, sweepProcessed, deferredInterfaces, stack,
                   translator>>

(***************************************************************************)
(* Line 661: the buffer goes to the file; main reports completion.         *)
(***************************************************************************)
WriteFile ==
    /\ pc = "write"
    /\ fileOps' = Append(fileOps, "write")
    /\ fileContent' = buffer
    /\ pc' = "done"
    /\ UNCHANGED <<input, fileIdx, schema, registries, diag, buffer, processedTypes,
                   sweepProcessed, deferredInterfaces, pending, stack, translator>>

Next ==
    \/ Start
    \/ WalkFn
    \/ ProcessType
    \/ CreateFile
    \/ GenerateEnums
    \/ GenerateTypes
    \/ BufferStep
    \/ GenerateRootInterfaces
    \/ RootFields
    \/ BufferMissingRequestInterfaces
    \/ GenerateRequestInterfaces
    \/ WriteFile

(***************************************************************************)
(* The translator alone, on one reference.                                 *)
(***************************************************************************)
Translate ==
    /\ pc = "translate"
    /\ tsType' = convertGraphqlTypeToTs(typeStr)
    /\ pc' = "translated"
    /\ UNCHANGED <<input, fileIdx, schema, registries, diag, generation, typeStr>>

NextRef == Translate

(***************************************************************************)
(* What the parser hands over: definitions with a name, a kind, an ordered *)
(* field list (name and Type.String()) and an ordered enum value list; an  *)
(* object, interface or input has at least one field, an enum at least one *)
(* value, and the names within one list are distinct.                      *)
(***************************************************************************)
\* Type references over the base names, with at most depth list levels.
RECURSIVE TypeRefs(_, _)
TypeRefs(bases, depth) ==
    IF depth = 0
    THEN {<<b>> : b \in bases} \cup {<<b, "!">> : b \in bases}
    ELSE LET inner == TypeRefs(bases, depth - 1)
         IN  inner \cup {<<"[">> \o r \o <<"]">> : r \in inner}
                   \cup {<<"[">> \o r \o <<"]", "!">> : r \in inner}

\* The sequences of n elements of S, no two with the same key.
RECURSIVE DistinctLists(_, _, _)
DistinctLists(S, Key(_), n) ==
    IF n = 0
    THEN {<<>>}
    ELSE {Append(l, x) : l \in DistinctLists(S, Key, n - 1), x \in S}

NoRepeat(l, Key(_)) == \A i, j \in 1..Len(l) : Key(l[i]) = Key(l[j]) => i = j

FieldName(f) == f.Name

Self(x) == x

\* The field lists of 1..n fields with the given names and type references.
FieldLists(names, refs, n) ==
    LET Fields == {[Name |-> nm, Type |-> t] : nm \in names, t \in refs}
    IN  UNION {{l \in DistinctLists(Fields, FieldName, k) : NoRepeat(l, FieldName)}
               : k \in 1..n}

ValueLists(values, n) ==
    UNION {{l \in DistinctLists(values, Self, k) : NoRepeat(l, Self)} : k \in 1..n}

ObjectDefs(names, kinds, fieldLists) ==
    {[Name |-> nm, Kind |-> k, Fields |-> fl, EnumValues |-> <<>>]
        : nm \in names, k \in kinds, fl \in fieldLists}

EnumDefs(names, valueLists) ==
    {[Name |-> nm, Kind |-> "ENUM", Fields |-> <<>>, EnumValues |-> vl]
        : nm \in names, vl \in valueLists}

OtherDefs(names, kinds) ==
    {[Name |-> nm, Kind |-> k, Fields |-> <<>>, EnumValues |-> <<>>]
        : nm \in names, k \in kinds}

GraphqlFile(defs) == [status |-> "ok", path |-> "schema.graphql", types |-> defs]

\* A directory, a file that is no .graphql file, and the three failures.
OtherEntries ==
    {[status |-> st, path |-> "entry", types |-> {}]
        : st \in {"skipped", "walkerr", "unreadable", "unparsable"}}

\* The sequences of 1..n elements of S.
RECURSIVE Lists(_, _)
Lists(S, n) ==
    IF n = 0
    THEN {<<>>}
    ELSE LET shorter == Lists(S, n - 1)
         IN  shorter \cup {Append(l, x) : l \in shorter, x \in S}

(***************************************************************************)
(* The run before main() starts: nothing registered, nothing written.      *)
(***************************************************************************)
Blank(skip, dir, fs, at, ref) ==
    /\ skipChecks = skip
    /\ inputDir = dir
    /\ files = fs
    /\ fileIdx = 1
    /\ schema = {}
    /\ types = EmptyMap
    /\ enums = EmptyMap
    /\ queries = EmptyMap
    /\ mutations = EmptyMap
    /\ pc = at
    /\ diag = NoErr
    /\ fileOps = <<>>
    /\ fileContent = <<>>
    /\ buffer = <<>>
    /\ processedTypes = {}
    /\ sweepProcessed = {}
    /\ deferredInterfaces = {}
    /\ pending = {}
    /\ stack = <<>>
    /\ typeStr = ref
    /\ tsType = <<>>

AtStart(skip, dir, fs) == Blank(skip, dir, fs, "start", <<>>)

(***************************************************************************)
(* Spec: runs over directories of up to MaxFiles entries.  A schema file   *)
(* declares one of: type Foo, enum Status, a root with one field, a        *)
(* scalar; or type Foo and enum Status with one declaration each.          *)
(***************************************************************************)
IngestNames == {"a", "b"}

IngestRefs == {<<"String">>, <<"Int">>}

IngestValues == {"ACTIVE", "INACTIVE"}

FooDefs(n) == ObjectDefs({"Foo"}, {"OBJECT"}, FieldLists(IngestNames, IngestRefs, n))

StatusDefs(n) == EnumDefs({"Status"}, ValueLists(IngestValues, n))

IngestDefs ==
    FooDefs(2)
    \cup StatusDefs(2)
    \cup ObjectDefs({"Query", "Mutation"}, {"OBJECT"},
                    FieldLists(IngestNames, IngestRefs, 1))
    \cup OtherDefs({"Date"}, {"SCALAR"})

IngestSchemas ==
    {{d} : d \in IngestDefs} \cup {{d, e} : d \in FooDefs(1), e \in StatusDefs(1)}

IngestFiles == {GraphqlFile(s) : s \in IngestSchemas} \cup OtherEntries

Init ==
    \E skip \in BOOLEAN, dir \in {"ok", "missing"} :
       \E fs \in IF dir = "ok" THEN Lists(IngestFiles, MaxFiles) ELSE {<<>>} :
          AtStart(skip, dir, fs)

Spec == Init /\ [][Next]_vars

(***************************************************************************)
(* SpecGen: runs over one schema file that declares one of type A, type B, *)
(* Query, Mutation with one or two fields, or two of them with one field   *)
(* each, or one or two enums; the fields' type references have up to       *)
(* MaxDepth list levels around String, A or B.                             *)
(***************************************************************************)
GenNames == {"f", "g"}

GenRefs == TypeRefs({"String", "A", "B"}, MaxDepth)

GenDefs(n) ==
    ObjectDefs({"A", "Query", "Mutation"}, {"OBJECT"}, FieldLists(GenNames, GenRefs, n))
    \cup ObjectDefs({"B"}, {"INTERFACE"}, FieldLists(GenNames, GenRefs, n))

GenEnums == EnumDefs({"E", "F"}, ValueLists({"X"}, 1))

GenSchemas ==
    {{d} : d \in GenDefs(2)}
    \cup {{d, e} : d, e \in GenDefs(1)}
    \cup {{d, e} : d, e \in GenEnums}

InitGen ==
    \E s \in {x \in GenSchemas : \A d, e \in x : d.Name = e.Name => d = e} :
       AtStart(FALSE, "ok", <<GraphqlFile(s)>>)

SpecGen == InitGen /\ [][Next]_vars

\* main is one sequential program: while a step is possible, one is taken.
SpecGenFair == InitGen /\ [][Next]_vars /\ WF_vars(Next)

(***************************************************************************)
(* SpecKinds: runs over a schema file that declares up to MaxKindDefs      *)
(* definitions of every kind (object, interface, input object, enum,       *)
(* scalar, union, the two roots), alone or followed by a second file with  *)
(* one definition.                                                         *)
(***************************************************************************)
KindRefs == {<<"String">>, <<"Foo">>, <<"Query">>}

KindDefs ==
    ObjectDefs({"Foo"}, {"OBJECT", "INTERFACE"}, FieldLists({"a"}, KindRefs, 1))
    \cup ObjectDefs({"In"}, {"INPUT_OBJECT"}, FieldLists({"a"}, {<<"String">>}, 1))
    \cup EnumDefs({"Status"}, ValueLists({"ACTIVE"}, 1))
    \cup OtherDefs({"Date"}, {"SCALAR"})
    \cup OtherDefs({"U"}, {"UNION"})
    \cup ObjectDefs({"Query", "Mutation"}, {"OBJECT"}, FieldLists({"a"}, KindRefs, 1))

KindSchemas ==
    {s \in SUBSET KindDefs :
        /\ Cardinality(s) \in 1..MaxKindDefs
        /\ \A d, e \in s : d.Name = e.Name => d = e}

InitKinds ==
    \E skip \in BOOLEAN, s \in KindSchemas :
       \E fs \in {<<GraphqlFile(s)>>}
                 \cup {<<GraphqlFile(s), GraphqlFile({d})>> : d \in KindDefs} :
          AtStart(skip, "ok", fs)

SpecKinds == InitKinds /\ [][Next]_vars

(***************************************************************************)
(* SpecRef: the translator on one type reference of up to MaxRefDepth list *)
(* levels around a built-in scalar or a custom name.                       *)
(***************************************************************************)
RefBases ==
    {"String", "Int", "Float", "Boolean", "ID", "DateTime", "JSONObject", "User",
     "Status"}

InitRef == \E ref \in TypeRefs(RefBases, MaxRefDepth) : Blank(FALSE, "ok", <<>>, "translate", ref)

SpecRef == InitRef /\ [][NextRef]_vars

(***************************************************************************)
(* Properties.                                                             *)
(***************************************************************************)
IsObjectKind(d) == d.Kind \in {"OBJECT", "INTERFACE"}

IsRootName(d) == d.Name \in {"Query", "Mutation"}

\* The step ranges over definition typ of the schema being ingested.
Visits(typ) == pc = "schema" /\ typ \in schema /\ schema' = schema \ {typ}

ConflictDiag(what, name) ==
    <<"Error processing schema files: ", what, name, " has conflicting definitions">>

IsConflict(d) == Len(d) = 4 /\ d[4] = " has conflicting definitions"

\* Same number of fields and, at every position, the same name and raw type.
SameFields(a, b) ==
    /\ Len(a.Fields) = Len(b.Fields)
    /\ \A i \in 1..Len(a.Fields) \cap 1..Len(b.Fields) :
          a.Fields[i].Name = b.Fields[i].Name /\ a.Fields[i].Type = b.Fields[i].Type

SameValues(a, b) ==
    /\ Len(a.EnumValues) = Len(b.EnumValues)
    /\ \A i \in 1..Len(a.EnumValues) \cap 1..Len(b.EnumValues) :
          a.EnumValues[i] = b.EnumValues[i]

\* C1: with skipChecks off, adding a type or an enum under a registered name
\* succeeds iff the new definition has the same fields (values) as the stored
\* one, position by position; otherwise the add fails with a conflict error
\* that names the entity, no registry changes, and nothing runs after it.
C1_StrictAdd ==
    [][/\ \A typ \in schema :
             (/\ ~skipChecks
              /\ Visits(typ)
              /\ IsObjectKind(typ)
              /\ ~IsRootName(typ)
              /\ typ.Name \in DOMAIN types)
             => IF SameFields(types[typ.Name].Definition, typ)
                THEN pc' # "fatal" /\ diag' = NoErr
                ELSE /\ pc' = "fatal"
                     /\ diag' = ConflictDiag("error: type or interface ", typ.Name)
                     /\ registries' = registries
       /\ \A typ \in schema :
             (/\ ~skipChecks
              /\ Visits(typ)
              /\ typ.Kind = "ENUM"
              /\ typ.Name \in DOMAIN enums)
             => IF SameValues(enums[typ.Name], typ)
                THEN pc' # "fatal" /\ diag' = NoErr
                ELSE /\ pc' = "fatal"
                     /\ diag' = ConflictDiag("error: enum ", typ.Name)
                     /\ registries' = registries
       /\ pc # "fatal"]_vars

\* A run stopped by type Foo declared again with its two fields swapped.
C1_Witness ==
    /\ ~skipChecks
    /\ pc = "fatal"
    /\ diag = ConflictDiag("error: type or interface ", "Foo")
    /\ "Foo" \in DOMAIN types
    /\ Len(types["Foo"].Definition.Fields) = 2
    /\ \E d \in files[fileIdx].types :
          /\ d.Name = "Foo"
          /\ d.Fields = <<types["Foo"].Definition.Fields[2],
                          types["Foo"].Definition.Fields[1]>>

\* The files that declare an object or interface (an enum) named n.
TypeFiles(n) ==
    {i \in 1..Len(files) : \E d \in files[i].types : d.Name = n /\ IsObjectKind(d)}

EnumFiles(n) ==
    {i \in 1..Len(files) : \E d \in files[i].types : d.Name = n /\ d.Kind = "ENUM"}

Min(S) == CHOOSE i \in S : \A j \in S : i <= j

FirstType(n) ==
    CHOOSE d \in files[Min(TypeFiles(n))].types : d.Name = n /\ IsObjectKind(d)

FirstEnum(n) ==
    CHOOSE d \in files[Min(EnumFiles(n))].types : d.Name = n /\ d.Kind = "ENUM"

\* The lines at positions k+1 .. k+Len(lines) of text are lines.
LinesAt(text, k, lines) ==
    /\ k + Len(lines) <= Len(text)
    /\ \A i \in 1..Len(lines) : text[k + i] = lines[i]

\* The line of a field per the nullability rule: "name: Type;" when the raw
\* type ends with "!", "name?: Nullable<Type>;" otherwise.
NullableLine(field) ==
    IF field.Type[Len(field.Type)] = "!"
    THEN <<"  ", field.Name, ": ">> \o convertGraphqlTypeToTs(field.Type) \o <<";\n">>
    ELSE <<"  ", field.Name, "?: Nullable<">> \o convertGraphqlTypeToTs(field.Type)
         \o <<">;\n">>

\* C2: with skipChecks on, no add ever returns a conflict error, and each
\* name holds the first definition added under it; the generated interface
\* is that of the first definition.
C2_PermissiveKeepsFirst ==
    skipChecks =>
       /\ ~IsConflict(diag)
       /\ \A n \in DOMAIN types : types[n] = [Name |-> n, Definition |-> FirstType(n)]
       /\ \A n \in DOMAIN enums : enums[n] = FirstEnum(n)
       /\ pc = "done" =>
             \A n \in DOMAIN types :
                \E k \in 1..Len(fileContent) :
                   /\ fileContent[k] = <<"export interface ", n, " {\n">>
                   /\ LinesAt(fileContent, k,
                              [i \in 1..Len(FirstType(n).Fields) |->
                                  NullableLine(FirstType(n).Fields[i])])

\* Foo {a: String} and then Foo {a: Int}: the file has "a?: Nullable<string>;".
C2_Witness ==
    /\ skipChecks
    /\ pc = "done"
    /\ Len(files) = 2
    /\ \E d \in files[1].types :
          d.Name = "Foo" /\ d.Fields = <<[Name |-> "a", Type |-> <<"String">>]>>
    /\ \E d \in files[2].types :
          d.Name = "Foo" /\ d.Fields = <<[Name |-> "a", Type |-> <<"Int">>]>>
    /\ \E k \in 1..Len(fileContent) :
          fileContent[k] = <<"  ", "a", "?: Nullable<", "string", ">;\n">>

\* C3: with skipChecks off, while a schema file equal to the one ingested just
\* before it is ingested, no step returns an error and no step changes a
\* registry: after the second ingestion the registries are what they were
\* after the first.
C3_SameFileTwice ==
    [][(/\ ~skipChecks
        /\ pc = "schema"
        /\ fileIdx > 1
        /\ files[fileIdx] = files[fileIdx - 1])
       => (pc' # "fatal" /\ diag' = NoErr /\ registries' = registries)]_vars

\* A file with a type and an enum was ingested twice, and the walk is over.
C3_Witness ==
    /\ ~skipChecks
    /\ pc = "walk"
    /\ Len(files) = 2
    /\ fileIdx = 3
    /\ files[1] = files[2]
    /\ DOMAIN types # {}
    /\ DOMAIN enums # {}

\* C8: a run in which a document fails to be read, parsed or ingested ends in
\* a diagnostic and never creates, truncates or writes the output file; the
\* output file is touched only once every document was ingested.
C8_NoOutputOnFailure ==
    /\ (\E i \in 1..Len(files) : files[i].status \in {"walkerr", "unreadable", "unparsable"})
          => fileOps = <<>> /\ fileContent = <<>>
    /\ (diag # NoErr /\ diag[1] = "Error processing schema files: ")
          => pc = "fatal" /\ fileOps = <<>> /\ fileContent = <<>>
    /\ pc = "fatal" => diag # NoErr
    /\ fileOps # <<>> => fileIdx = Len(files) + 1 /\ schema = {}

\* A conflict in the second file, after the file's enum was registered.
C8_Witness ==
    /\ pc = "fatal"
    /\ IsConflict(diag)
    /\ fileIdx = 2
    /\ DOMAIN types # {}
    /\ DOMAIN enums # {}
    /\ fileOps = <<>>

TypeHeader(n) == <<"export interface ", n, " {\n">>

RequestHeader(n) == <<"export interface ", n, "Request", " {\n">>

EnumHeader(n) == <<"export enum ", n, " {\n">>

Positions(text, line) == {k \in 1..Len(text) : text[k] = line}

RootFieldsOf(root) == IF root = "Query" THEN queries ELSE mutations

\* C4: in the generated file every field of every registered type, and every
\* Query and Mutation field, has the line "name: Type;" iff its raw type ends
\* with "!", and "name?: Nullable<Type>;" otherwise, Type being the
\* translation of the whole reference: only the outermost marker counts.
C4_NullabilityMarker ==
    pc = "done" =>
       /\ \A n \in DOMAIN types :
             \E k \in Positions(fileContent, TypeHeader(n)) :
                LinesAt(fileContent, k,
                        [i \in 1..Len(types[n].Definition.Fields) |->
                            NullableLine(types[n].Definition.Fields[i])])
       /\ \A root \in {"Query", "Mutation"} :
             DOMAIN RootFieldsOf(root) # {} =>
                \E k \in Positions(fileContent, TypeHeader(root)) :
                   \A name \in DOMAIN RootFieldsOf(root) :
                      \E j \in 1..Cardinality(DOMAIN RootFieldsOf(root)) :
                         /\ k + j <= Len(fileContent)
                         /\ fileContent[k + j] = NullableLine(RootFieldsOf(root)[name])

\* A type with a nullable list of non-null elements, rendered optional, and a
\* non-null list, rendered without Nullable.
C4_Witness ==
    /\ pc = "done"
    /\ \E n \in DOMAIN types :
          /\ types[n].Definition.Fields =
                <<[Name |-> "f", Type |-> <<"[", "A", "!", "]">>],
                  [Name |-> "g", Type |-> <<"[", "A", "!", "]", "!">>]>>
          /\ \E k \in Positions(fileContent, TypeHeader(n)) :
                LinesAt(fileContent, k,
                        << <<"  ", "f", "?: Nullable<", "Array<", "A", ">", ">;\n">>,
                           <<"  ", "g", ": ", "Array<", "A", ">", ";\n">> >>)

\* The base name of a well-formed reference, and whether it is a list.
BaseName(ref) == ref[CHOOSE i \in 1..Len(ref) : ref[i] \notin {"[", "]", "!"}]

IsListRef(ref) == ref[1] = "["

\* The projection type of a reference as the specification states it.
StatedProjection(ref) ==
    IF BaseName(ref) \in DOMAIN types
    THEN IF IsListRef(ref)
         THEN <<"Array<", BaseName(ref), "Request>">>
         ELSE <<BaseName(ref), "Request">>
    ELSE IF IsListRef(ref)
         THEN <<"Array<boolean | number>">>
         ELSE <<"boolean | number">>

\* C5: in every request interface the type of a field is <Inner>Request when
\* the base name of the field's reference is a registered type and
\* "boolean | number" otherwise, wrapped in Array<...> when the reference is a
\* list.
C5_ProjectionType ==
    pc = "done" =>
       \A n \in DOMAIN types :
          \E k \in Positions(fileContent, RequestHeader(n)) :
             \A i \in 1..Len(types[n].Definition.Fields) :
                \E marker \in {": ", "?: "} :
                   /\ k + i <= Len(fileContent)
                   /\ fileContent[k + i] =
                         <<"  ", types[n].Definition.Fields[i].Name, marker>>
                         \o StatedProjection(types[n].Definition.Fields[i].Type)
                         \o <<";\n">>

\* C6 as stated: every field of every request interface is written
\* "name: <projection type>;", whatever the reference ends with.
C6_NoOptionalMarker ==
    pc = "done" =>
       \A n \in DOMAIN types :
          \E k \in Positions(fileContent, RequestHeader(n)) :
             LinesAt(fileContent, k,
                     [i \in 1..Len(types[n].Definition.Fields) |->
                         <<"  ", types[n].Definition.Fields[i].Name, ": ">>
                         \o determineFieldType(types[n].Definition.Fields[i].Type)
                         \o <<";\n">>])

\* The request line of a field: "name: T;" when the reference ends with "!",
\* "name?: T;" otherwise, T being the projection type, with no Nullable<...>.
RequestLine(field) ==
    <<"  ", field.Name, IF field.Type[Len(field.Type)] = "!" THEN ": " ELSE "?: ">>
    \o determineFieldType(field.Type) \o <<";\n">>

\* C6, amended: a request field carries no Nullable<...> wrapper, but it does
\* carry the optional marker: "name: <projection type>;" when the reference
\* ends with "!", "name?: <projection type>;" otherwise; each registered type
\* has exactly one request interface, so type Node {parent: Node} alone yields
\* one NodeRequest, whose field line is "parent?: NodeRequest;".
C6_OptionalMarkerOnly ==
    pc = "done" =>
       \A n \in DOMAIN types :
          /\ Cardinality(Positions(fileContent, RequestHeader(n))) = 1
          /\ \E k \in Positions(fileContent, RequestHeader(n)) :
                LinesAt(fileContent, k,
                        [i \in 1..Len(types[n].Definition.Fields) |->
                            RequestLine(types[n].Definition.Fields[i])])

\* The registry holds only type A {f: A}: one ARequest, with "f?: ARequest;".
C6_Witness ==
    /\ pc = "done"
    /\ DOMAIN types = {"A"}
    /\ DOMAIN queries = {}
    /\ DOMAIN mutations = {}
    /\ types["A"].Definition.Fields = <<[Name |-> "f", Type |-> <<"A">>]>>
    /\ Cardinality(Positions(fileContent, RequestHeader("A"))) = 1
    /\ \E k \in Positions(fileContent, RequestHeader("A")) :
          LinesAt(fileContent, k, << <<"  ", "f", "?: ", "A", "Request", ";\n">> >>)

\* C7: the request interfaces of the generated file are those of the
\* registered types: one for every registered type, referenced or not, and
\* none for any other name.
C7_RequestPerType ==
    pc = "done" =>
       /\ \A n \in DOMAIN types :
             Cardinality(Positions(fileContent, RequestHeader(n))) = 1
       /\ \A k \in 1..Len(fileContent) :
             (Len(fileContent[k]) = 4 /\ fileContent[k][3] = "Request")
                => fileContent[k][2] \in DOMAIN types

\* Two types that no field and no root field refers to.
C7_Witness ==
    /\ pc = "done"
    /\ DOMAIN types = {"A", "B"}
    /\ \A n \in DOMAIN types :
          \A i \in 1..Len(types[n].Definition.Fields) :
             BaseName(types[n].Definition.Fields[i].Type) = "String"
    /\ DOMAIN queries = {}
    /\ DOMAIN mutations = {}
    /\ Positions(fileContent, RequestHeader("A")) # {}
    /\ Positions(fileContent, RequestHeader("B")) # {}

\* The names of the model in lexical (byte) order.
NameOrder ==
    <<"A", "B", "Date", "E", "F", "Foo", "Mutation", "Query", "Status", "a", "b", "f",
      "g">>

Rank(n) == CHOOSE i \in 1..Len(NameOrder) : NameOrder[i] = n

First(text, line) == Min(Positions(text, line))

\* C9: within each section of the generated file the entries come in the
\* lexical order of their names.
C9_SortedEmission ==
    pc = "done" =>
       /\ \A x, y \in DOMAIN enums :
             Rank(x) < Rank(y) =>
                First(fileContent, EnumHeader(x)) < First(fileContent, EnumHeader(y))
       /\ \A x, y \in DOMAIN types :
             Rank(x) < Rank(y) =>
                /\ First(fileContent, TypeHeader(x)) < First(fileContent, TypeHeader(y))
                /\ First(fileContent, RequestHeader(x))
                      < First(fileContent, RequestHeader(y))
       /\ \A root \in {"Query", "Mutation"} :
             \A x, y \in DOMAIN RootFieldsOf(root) :
                Rank(x) < Rank(y) =>
                   \E i, j \in 1..Len(fileContent) :
                      /\ First(fileContent, TypeHeader(root)) < i
                      /\ i < j
                      /\ j <= First(fileContent, TypeHeader(root)) + 2
                      /\ fileContent[i] = rootFieldLine(RootFieldsOf(root)[x])
                      /\ fileContent[j] = rootFieldLine(RootFieldsOf(root)[y])

\* The number of list levels of a well-formed reference.
Depth(ref) == Cardinality({i \in 1..Len(ref) : ref[i] = "["})

MappedName(b) ==
    CASE b \in {"String", "ID", "DateTime"} -> "string"
      [] b \in {"Int", "Float"} -> "number"
      [] b = "Boolean" -> "boolean"
      [] b = "JSONObject" -> "Record<string, unknown>"
      [] OTHER -> b

\* C10: the translation of a well-formed reference with d list levels is the
\* mapped base name inside exactly d nested Array<...>, with no "!" and no
\* bracket left.
C10_Translation ==
    pc = "translated" =>
       /\ tsType = [i \in 1..Depth(typeStr) |-> "Array<"]
                   \o <<MappedName(BaseName(typeStr))>>
                   \o [i \in 1..Depth(typeStr) |-> ">"]
       /\ \A i \in 1..Len(tsType) : tsType[i] \notin {"!", "[", "]"}

\* [[String!]]! gives Array<Array<string>>.
C10_Witness ==
    /\ pc = "translated"
    /\ typeStr = <<"[", "[", "String", "!", "]", "]", "!">>
    /\ tsType = <<"Array<", "Array<", "string", ">", ">">>

\* Whether type n has a field whose base name is m.
RefersTo(n, m) ==
    \E i \in 1..Len(types[n].Definition.Fields) :
       BaseName(types[n].Definition.Fields[i].Type) = m

\* C11: request-shape resolution terminates: once the expansion driven from
\* the type fields has begun, the end of the sweep is reached, with a call
\* stack that never holds more frames than there are registered types plus
\* the caller's loop, also when types refer to themselves or to each other.
C11_ResolutionTerminates ==
    /\ (pc = "generateTypes") ~> (pc = "generateRequests")
    /\ [](Len(stack) <= Cardinality(DOMAIN types) + 1)

\* The sweep has ended for a registry where A refers to B and B to A.
C11_Witness ==
    /\ pc = "generateRequests"
    /\ stack = <<>>
    /\ DOMAIN types = {"A", "B"}
    /\ RefersTo("A", "B")
    /\ RefersTo("B", "A")
    /\ deferredInterfaces = {"A", "B"}

\* A step that enters the loop of bufferRequestInterface over the fields of
\* type n (lines 682-686): a new frame for n on top of the call stack.
Expands(n) ==
    /\ Len(stack') = Len(stack) + 1
    /\ Head(stack') = [fn |-> "bufferRequestInterface", name |-> n, i |-> 1]

\* C12: during one resolution run each registered type has its fields
\* expanded at most once.  A type is marked in deferredInterfaces in the very
\* step that first expands it, so a type already marked has been expanded,
\* and the statement is that no step expands a type that is already marked.
C12_ExpandedAtMostOnce ==
    [][\A n \in DOMAIN types : Expands(n) => n \notin deferredInterfaces]_vars

\* Definition d of entry i has been through the loop of processSchemaFile.
Ingested(i, d) ==
    /\ i \in 1..Len(files)
    /\ d \in files[i].types
    /\ \/ i < fileIdx
       \/ i = fileIdx /\ d \notin schema
          /\ (pc = "schema" \/ (pc = "fatal" /\ IsConflict(diag)))

\* The entries whose ingested definition of the root declares field n.
Occurrences(root, n) ==
    {i \in 1..Len(files) :
        \E d \in files[i].types :
           /\ Ingested(i, d)
           /\ IsObjectKind(d)
           /\ d.Name = root
           /\ \E k \in 1..Len(d.Fields) : d.Fields[k].Name = n}

Max(S) == CHOOSE i \in S : \A j \in S : j <= i

\* Field n as the last ingested occurrence in the root declares it.
LastOccurrence(root, n) ==
    LET d == CHOOSE d \in files[Max(Occurrences(root, n))].types :
                IsObjectKind(d) /\ d.Name = root
    IN  d.Fields[CHOOSE k \in 1..Len(d.Fields) : d.Fields[k].Name = n]

\* C13: ingesting a Query or Mutation definition never fails, in either mode,
\* and changes only the mapping of that root; at every moment each root
\* mapping holds exactly the field names declared by the ingested
\* definitions of that root, each with the field of the last ingested
\* occurrence of the name.
C13_RootLastWriterWins ==
    /\ [](\A root \in {"Query", "Mutation"} :
             /\ \A n \in IngestNames :
                   n \in DOMAIN RootFieldsOf(root) <=> Occurrences(root, n) # {}
             /\ \A n \in DOMAIN RootFieldsOf(root) :
                   RootFieldsOf(root)[n] = LastOccurrence(root, n))
    /\ [][\A typ \in schema :
             (Visits(typ) /\ IsObjectKind(typ) /\ IsRootName(typ))
             => /\ pc' # "fatal"
                /\ diag' = NoErr
                /\ types' = types
                /\ enums' = enums
                /\ typ.Name = "Query" => mutations' = mutations
                /\ typ.Name = "Mutation" => queries' = queries]_vars

\* In strict mode two files declare Query.a with different types: the walk
\* has ended without failure, the mapping holds the later one, and the
\* Mutation mapping is untouched.
C13_Witness ==
    /\ ~skipChecks
    /\ pc = "walk"
    /\ Len(files) = 2
    /\ fileIdx = 3
    /\ \E d \in files[1].types :
          d.Name = "Query" /\ d.Fields = <<[Name |-> "a", Type |-> <<"String">>]>>
    /\ \E d \in files[2].types :
          d.Name = "Query" /\ d.Fields = <<[Name |-> "a", Type |-> <<"Int">>]>>
    /\ queries = [n \in {"a"} |-> [Name |-> "a", Type |-> <<"Int">>]]
    /\ DOMAIN mutations = {}

\* C14: the type registry never has an entry named Query or Mutation and
\* holds only object and interface definitions, the enum registry holds only
\* enum definitions, and a definition of any other kind (scalar, union,
\* input) changes no registry; so the generated file has no QueryRequest and
\* no MutationRequest interface, and it has a Query (Mutation) interface iff
\* the Query (Mutation) mapping is not empty.
C14_RegistryKinds ==
    /\ [](/\ DOMAIN types \cap {"Query", "Mutation"} = {}
          /\ \A n \in DOMAIN types : types[n].Definition.Kind \in {"OBJECT", "INTERFACE"}
          /\ \A n \in DOMAIN enums : enums[n].Kind = "ENUM"
          /\ pc = "done" =>
                \A root \in {"Query", "Mutation"} :
                   /\ Positions(fileContent, RequestHeader(root)) = {}
                   /\ Positions(fileContent, TypeHeader(root)) # {}
                         <=> DOMAIN RootFieldsOf(root) # {})
    /\ [][\A typ \in schema :
             (Visits(typ) /\ typ.Kind \notin {"OBJECT", "INTERFACE", "ENUM"})
             => registries' = registries /\ pc' # "fatal"]_vars

\* A file with a Query, an input object and a union has been turned into a
\* file with a Query interface and no Mutation interface; the registries of
\* types and enums are empty.
C14_Witness ==
    /\ pc = "done"
    /\ Len(files) = 1
    /\ {d.Kind : d \in files[1].types} = {"OBJECT", "INPUT_OBJECT", "UNION"}
    /\ DOMAIN queries = {"a"}
    /\ DOMAIN mutations = {}
    /\ DOMAIN types = {}
    /\ DOMAIN enums = {}
    /\ Positions(fileContent, TypeHeader("Query")) # {}
    /\ Positions(fileContent, TypeHeader("Mutation")) = {}

====
